---- MODULE Spec2Model ----
(***************************************************************************)
(* Placement Portal (Streamlit + MySQL), src/app.py.                       *)
(*                                                                         *)
(* The state is the relational tables the pages read and write, the        *)
(* per-browser session state (st.session_state.auth, the page selected in  *)
(* the sidebar, what the last script run put on screen) and, for the       *)
(* handlers that issue more than one database operation, the position of   *)
(* the running script.  One action is one script run of main() (or, for    *)
(* those handlers, one database operation of the run).                     *)
(***************************************************************************)
EXTENDS Integers, Sequences, FiniteSets, TLC

(* ------------------------------ bounds -------------------------------- *)
NumSessions == 2      \* browser sessions that may exist
MaxUserId   == 4      \* cap of the users AUTO_INCREMENT counter
MaxStudentId == 2     \* cap of the student AUTO_INCREMENT counter
MaxOppId    == 2      \* cap of the opportunity AUTO_INCREMENT counter
MaxAppId    == 1      \* cap of the application AUTO_INCREMENT counter
MaxMinorId  == 1      \* cap of the interview/assessment/announcement counters
MaxAudit    == 2      \* cap of the number of application_audit rows
MaxDay      == 2      \* days the calendar may advance
MaxCalls    == 6      \* database-helper calls followed in the connection model

(* --------------------------- nullable values -------------------------- *)
\* SQL NULL / Python None for a nullable column; Some(v) for a value.
NULL == <<>>
Some(v) == <<v>>
IsNull(x) == x = NULL
Val(x) == x[1]

\* st.session_state.auth = None
None == [none |-> TRUE]

Sessions == 1..NumSessions

(* ------------------------------ helpers ------------------------------- *)
\* STATUS_COLORS keys / the 'Change Status' selectbox options
STATUSES == <<"APPLIED", "SHORTLISTED", "INTERVIEW_SCHEDULED", "OFFERED", "REJECTED", "WITHDRAWN">>

StatusSet == {STATUSES[i] : i \in DOMAIN STATUSES}

\* hashlib.sha256(s.encode("utf-8")).hexdigest() on the passwords of the model
sha256_hex(s) ==
    CASE s = "admin123" -> "240be518fabd2724ddb6f04eeb1da5967448d7e831c08c8fa822809f74c720a9"
      [] s = "aarav123" -> "928388df62d6bbfd179ce4a6833b74a8dda8cbc9e962fb1a2329942ed07d44bc"
      [] s = ""         -> "e3b0c44298fc1c149afbf4c8996fb92427ae41e4649b934ca495991b7852b855"
      [] s = "240be518fabd2724ddb6f04eeb1da5967448d7e831c08c8fa822809f74c720a9"
                        -> "da1a51f975cd750be255d21548eaae1dbaa96ffc997283a6a204f9213a8aca71"

\* Passwords typed into a password box (the last one is the stored hash of
\* 'admin123' typed as if it were the password).
Passwords == {"admin123", "aarav123", "",
              "240be518fabd2724ddb6f04eeb1da5967448d7e831c08c8fa822809f74c720a9"}

Usernames == {"admin", "aarav", "officer", "riya", ""}

(* ------------------------------- state -------------------------------- *)
VARIABLES
    users,              \* table users: rows [user_id, username, password_hash, role, student_id]
    student,            \* table student
    opportunity,        \* table opportunity: rows [opportunity_id, application_deadline]
    application,        \* table application: rows [application_id, student_id, opportunity_id, status]
    application_audit,  \* table application_audit: rows [application_id, action, details]
    interview,          \* table interview: rows [interview_id, application_id, result]
    assessment,         \* table assessment: rows [assessment_id, opportunity_id]
    announcement,       \* table announcement: rows [announcement_id]
    autoinc,            \* the AUTO_INCREMENT counter of each table
    today,              \* CURDATE(), in days
    auth,               \* st.session_state.auth of each session
    page,               \* the sidebar 'Navigate' selection of each session ("-" when not shown)
    view,               \* the opportunity rows the session's last run put on screen
    pc,                 \* where the session's script is: "idle", "rerun", or inside a handler
    loc,                \* the locals of the handler the session's script is inside
    last,               \* what the latest script run did
    active,             \* the sessions that are open
    scope,              \* the group of pages whose handlers this behaviour exercises
    dbcall,             \* the database helper call in progress (query, execute, call_proc)
    open_conns,         \* connections this layer has opened and not yet closed
    tally               \* how the helper calls so far have ended

dbvars == <<users, student, opportunity, application, application_audit,
            interview, assessment, announcement, autoinc>>
sessvars == <<auth, page, view, pc, loc>>
layervars == <<dbcall, open_conns, tally>>
cfgvars == <<active, scope, layervars>>
vars == <<dbvars, today, sessvars, last, cfgvars>>

(* ----------------------------- navigation ----------------------------- *)
ADMIN_KEYS == <<"Students", "Opportunities", "Announcements", "Assessments",
                "Interviews", "Applications", "Reports", "Users">>

PAGES_ADMIN_reports_twice ==
    ("Students" :> "page_students") @@
    ("Opportunities" :> "page_opportunities_admin") @@
    ("Announcements" :> "page_announcements_admin") @@
    ("Assessments" :> "page_assessments_admin") @@
    ("Interviews" :> "page_interviews_admin") @@
    ("Applications" :> "page_applications_admin") @@
    ("Reports" :> "page_reports") @@
    ("Users" :> "page_reports")

PAGES_ADMIN ==
    ("Students" :> "page_students") @@
    ("Opportunities" :> "page_opportunities_admin") @@
    ("Announcements" :> "page_announcements_admin") @@
    ("Assessments" :> "page_assessments_admin") @@
    ("Interviews" :> "page_interviews_admin") @@
    ("Applications" :> "page_applications_admin") @@
    ("Reports" :> "page_reports") @@
    ("Users" :> "page_users_admin")

PAGES_STUDENT_students ==
    ("My Dashboard" :> "page_student_dashboard") @@
    ("My Profile" :> "page_student_profile") @@
    ("Opportunities" :> "page_opportunities_student") @@
    ("Reports" :> "page_students")

STUDENT_KEYS == <<"My Dashboard", "My Profile", "Opportunities", "Reports">>

PAGES_STUDENT ==
    ("My Dashboard" :> "page_student_dashboard") @@
    ("My Profile" :> "page_student_profile") @@
    ("Opportunities" :> "page_opportunities_student") @@
    ("Reports" :> "page_reports")

Range(f) == {f[x] : x \in DOMAIN f}

\* every page function of the program
PageFns == Range(PAGES_ADMIN) \cup Range(PAGES_STUDENT)

\* the pages that exist only in PAGES_ADMIN
AdminOnlyFns == Range(PAGES_ADMIN) \ Range(PAGES_STUDENT)

NoPage == "-"

\* st.sidebar.selectbox("Navigate", keys): the stored selection when it is one of
\* the options, the first option otherwise
selectbox(keys, sel) ==
    IF sel \in {keys[i] : i \in DOMAIN keys} THEN sel ELSE keys[1]

\* The sidebar selection main() ends with for a session whose auth is a.
page_name(a, sel) ==
    IF a = None THEN NoPage
    ELSE IF a.role = "ADMIN" THEN selectbox(ADMIN_KEYS, sel)
    ELSE IF a.role = "STUDENT" /\ ~IsNull(a.student_id) THEN selectbox(STUDENT_KEYS, sel)
    ELSE NoPage

main_nogate(a, sel) ==
    IF a = None THEN PAGES_ADMIN[selectbox(ADMIN_KEYS, sel)]
    ELSE IF a.role = "ADMIN" THEN PAGES_ADMIN[selectbox(ADMIN_KEYS, sel)]
    ELSE IF a.role = "STUDENT" THEN
        IF IsNull(a.student_id) THEN "not_linked"
        ELSE PAGES_STUDENT[selectbox(STUDENT_KEYS, sel)]
    ELSE "unknown_role"

main_norole(a, sel) ==
    IF a = None THEN "login_ui"
    ELSE IF a.role \in {"ADMIN", "STUDENT"} THEN PAGES_ADMIN[selectbox(ADMIN_KEYS, sel)]
    ELSE "unknown_role"

main_nolink(a, sel) ==
    IF a = None THEN "login_ui"
    ELSE IF a.role = "ADMIN" THEN PAGES_ADMIN[selectbox(ADMIN_KEYS, sel)]
    ELSE IF a.role = "STUDENT" THEN PAGES_STUDENT[selectbox(STUDENT_KEYS, sel)]
    ELSE "unknown_role"

main_revalidate(a, sel) ==
    IF a = None \/ a.user_id \notin {u.user_id : u \in users} THEN "login_ui"
    ELSE IF a.role = "ADMIN" THEN PAGES_ADMIN[selectbox(ADMIN_KEYS, sel)]
    ELSE IF a.role = "STUDENT" THEN
        IF IsNull(a.student_id) THEN "not_linked"
        ELSE PAGES_STUDENT[selectbox(STUDENT_KEYS, sel)]
    ELSE "unknown_role"

\* main(): what a script run executes for a session whose auth is a and whose
\* sidebar selection is sel: login_ui, a page function, or one of the two
\* error screens that offer only Logout.
main(a, sel) ==
    IF a = None THEN "login_ui"
    ELSE IF a.role = "ADMIN" THEN PAGES_ADMIN[selectbox(ADMIN_KEYS, sel)]
    ELSE IF a.role = "STUDENT" THEN
        IF IsNull(a.student_id) THEN "not_linked"
        ELSE PAGES_STUDENT[selectbox(STUDENT_KEYS, sel)]
    ELSE "unknown_role"

(* ------------------------------ database ------------------------------ *)
\* fn_days_left_for_opportunity(opportunity_id): NULL without a deadline, else
\* the days from CURDATE() to the deadline (negative once it has passed).
fn_days_left_for_opportunity(o, day) ==
    IF IsNull(o.application_deadline) THEN NULL
    ELSE Some(Val(o.application_deadline) - day)

Ids(T, col) == {r[col] : r \in T}

(* ------------------------------- badges ------------------------------- *)
badge(text, color) == [text |-> text, color |-> color]

expired_badge == [text |-> "EXPIRED", color |-> "#ef4444"]

opp_badge_strict(days_left) ==
    IF IsNull(days_left) THEN badge("No Deadline", "#6b7280")
    ELSE IF Val(days_left) <= 0 THEN expired_badge
    ELSE badge(ToString(Val(days_left)) \o " days left", "#2563eb")

\* page_opportunities_admin, column c3: the deadline badge of a row
opp_badge_admin(days_left) ==
    IF IsNull(days_left) THEN badge("No Deadline", "#6b7280")
    ELSE IF Val(days_left) < 0 THEN expired_badge
    ELSE badge(ToString(Val(days_left)) \o " days left", "#2563eb")

\* page_opportunities_student, column c3: the deadline badge of a row
opp_badge_student(days_left) ==
    IF IsNull(days_left) THEN badge("No Deadline", "#6b7280")
    ELSE IF Val(days_left) < 0 THEN expired_badge
    ELSE badge(ToString(Val(days_left)) \o " days left", "#2563eb")

apply_button_noexpiry(days_left, already) ==
    [label |-> IF already THEN "Applied" ELSE "Apply", disabled |-> already]

\* page_opportunities_student, column c4: the Apply button of a row
apply_button(days_left, already) ==
    LET expired == ~IsNull(days_left) /\ Val(days_left) < 0
        disabled == expired \/ already
        label == IF already THEN "Applied" ELSE (IF ~expired THEN "Apply" ELSE "Expired")
    IN [label |-> label, disabled |-> disabled]

\* What a run of page function fn puts on screen for the opportunity rows
\* (a is the session's auth; opps, apps and day are what its queries return).
ViewOf(fn, a, opps, apps, day) ==
    IF fn = "page_opportunities_admin" THEN
        [id \in Ids(opps, "opportunity_id") |->
            LET r == CHOOSE o \in opps : o.opportunity_id = id
                days_left == fn_days_left_for_opportunity(r, day)
            IN [page |-> fn, opportunity_id |-> id, days_left |-> days_left, badge |-> opp_badge_admin(days_left),
                applied |-> FALSE, button |-> [label |-> "Delete", disabled |-> FALSE]]]
    ELSE IF fn = "page_opportunities_student" THEN
        [id \in Ids(opps, "opportunity_id") |->
            LET r == CHOOSE o \in opps : o.opportunity_id = id
                days_left == fn_days_left_for_opportunity(r, day)
                applied_set == {e.opportunity_id : e \in {x \in apps : x.student_id = Val(a.student_id)}}
                already == id \in applied_set
            IN [page |-> fn, opportunity_id |-> id, days_left |-> days_left, badge |-> opp_badge_student(days_left),
                applied |-> already, button |-> apply_button(days_left, already)]]
    ELSE <<>>

(* -------------------------------- auth -------------------------------- *)
\* rows of "SELECT ... FROM users WHERE username=%s", in user_id order
RECURSIVE RowsById(_)
RowsById(S) ==
    IF S = {} THEN <<>>
    ELSE LET u == CHOOSE x \in S : \A y \in S : x.user_id <= y.user_id
         IN <<u>> \o RowsById(S \ {u})

users_by_username(username) == RowsById({u \in users : u.username = username})

authenticate_plain(username, password) ==
    LET rows == users_by_username(username) IN
    IF rows = <<>> THEN None
    ELSE LET u == rows[1] IN
         IF u.password_hash = password
         THEN [user_id |-> u.user_id, username |-> u.username,
               role |-> u.role, student_id |-> u.student_id]
         ELSE None

authenticate(username, password) ==
    LET rows == users_by_username(username) IN
    IF rows = <<>> THEN None
    ELSE LET u == rows[1] IN
         IF u.password_hash = sha256_hex(password)
         THEN [user_id |-> u.user_id, username |-> u.username,
               role |-> u.role, student_id |-> u.student_id]
         ELSE None

(* --------------------------- script runs ------------------------------ *)
\* The record of one script run: the function main() dispatched to, the widget
\* that triggered the run, the message shown, whether the run died of an
\* uncaught exception, whether a database operation raised mysql.connector.Error,
\* the statements committed, the stored procedure called, the locals of the
\* handler, the tables listed.
Ran(s, fn, handler, msg) ==
    [s |-> s, fn |-> fn, handler |-> handler, msg |-> msg, crash |-> FALSE,
     dberr |-> FALSE, writes |-> <<>>, call |-> <<>>, args |-> <<>>, reads |-> {}]

NoLoc == <<>>

\* the tables each page function lists on screen
Lists(fn) ==
    CASE fn = "page_students" -> {"student"}
      [] fn = "page_opportunities_admin" -> {"opportunity"}
      [] fn = "page_announcements_admin" -> {"announcement"}
      [] fn = "page_assessments_admin" -> {"assessment"}
      [] fn = "page_interviews_admin" -> {"interview"}
      [] fn = "page_applications_admin" -> {"application"}
      [] fn = "page_reports" -> {"opportunity", "student"}
      [] fn = "page_users_admin" -> {"user"}
      [] fn = "page_student_dashboard" -> {"interview", "assessment"}
      [] fn = "page_student_profile" -> {"student"}
      [] fn = "page_opportunities_student" -> {"opportunity"}
      [] OTHER -> {}

Banner(fn) ==
    CASE fn = "not_linked" -> "This student user is not linked to a student record. Ask Admin to link it."
      [] fn = "unknown_role" -> "Unknown role."
      [] OTHER -> ""

Idle(s) == s \in active /\ pc[s] = "idle"

\* A script run no button or form triggered: main() dispatches and the page
\* function (if any) renders; a listing query that raises ends the run with
\* an uncaught exception.  sel is the sidebar selection the run starts with.
Render(s, sel, handler) ==
    LET a == auth[s]
        fn == main(a, sel)
    IN \E qerr \in (IF fn \in PageFns THEN BOOLEAN ELSE {FALSE}) :
        /\ last' = [Ran(s, fn, handler, Banner(fn)) EXCEPT
                        !.crash = qerr, !.dberr = qerr,
                        !.reads = IF qerr THEN {} ELSE Lists(fn)]
        /\ view' = [view EXCEPT ![s] =
                        IF qerr THEN <<>> ELSE ViewOf(fn, a, opportunity, application, today)]
        /\ page' = [page EXCEPT ![s] = page_name(a, sel)]
        /\ pc' = [pc EXCEPT ![s] = "idle"]
        /\ loc' = [loc EXCEPT ![s] = NoLoc]

\* st.rerun(): the script runs again from the top.
Rerun(s) ==
    /\ s \in active /\ pc[s] = "rerun"
    /\ Render(s, page[s], "rerun")
    /\ UNCHANGED <<dbvars, today, auth, cfgvars>>

\* The user picks a page in the sidebar 'Navigate' selectbox.
Navigate(s, sel) ==
    /\ Idle(s)
    /\ page_name(auth[s], page[s]) # NoPage
    /\ sel \in DOMAIN (IF auth[s].role = "ADMIN" THEN PAGES_ADMIN ELSE PAGES_STUDENT)
    /\ Render(s, sel, "Navigate")
    /\ UNCHANGED <<dbvars, today, auth, cfgvars>>

\* login_ui(): the login form is submitted.
Login(s, username, password) ==
    /\ Idle(s)
    /\ main(auth[s], page[s]) = "login_ui"
    /\ \E qerr \in BOOLEAN :
        IF qerr THEN
            /\ last' = [Ran(s, "login_ui", "login_form", "") EXCEPT !.crash = TRUE, !.dberr = TRUE]
            /\ UNCHANGED <<auth, pc>>
        ELSE LET user == authenticate(username, password) IN
            IF user # None THEN
                /\ auth' = [auth EXCEPT ![s] = user]
                /\ pc' = [pc EXCEPT ![s] = "rerun"]
                /\ last' = Ran(s, "login_ui", "login_form", "Welcome")
            ELSE
                /\ last' = Ran(s, "login_ui", "login_form", "Invalid credentials.")
                /\ UNCHANGED <<auth, pc>>
    /\ loc' = [loc EXCEPT ![s] = NoLoc]
    /\ UNCHANGED <<dbvars, today, page, view, cfgvars>>

Logout_keeps_auth(s) ==
    /\ Idle(s)
    /\ auth[s] # None
    /\ auth' = auth
    /\ pc' = [pc EXCEPT ![s] = "rerun"]
    /\ last' = Ran(s, "main", "Logout", "")
    /\ loc' = [loc EXCEPT ![s] = NoLoc]
    /\ UNCHANGED <<dbvars, today, page, view, cfgvars>>

\* The sidebar Logout button: main() clears auth and reruns before any page
\* function is called.
Logout(s) ==
    /\ Idle(s)
    /\ auth[s] # None
    /\ auth' = [auth EXCEPT ![s] = None]
    /\ pc' = [pc EXCEPT ![s] = "rerun"]
    /\ last' = Ran(s, "main", "Logout", "")
    /\ loc' = [loc EXCEPT ![s] = NoLoc]
    /\ UNCHANGED <<dbvars, today, page, view, cfgvars>>

\* Midnight passes: CURDATE() advances by one day.
Tick ==
    /\ scope = "opps"
    /\ today < MaxDay
    /\ today' = today + 1
    /\ UNCHANGED <<dbvars, sessvars, last, cfgvars>>

(* ------------------------- handler plumbing --------------------------- *)
\* The end of a script run that ran page function fn with a widget triggered:
\* what it showed, whether it ended in st.rerun(), and what is left on screen.
FinishWith(s, fn, handler, msg, crash, dberr, writes, rerun, args) ==
    /\ last' = [Ran(s, fn, handler, msg) EXCEPT
                    !.crash = crash, !.dberr = dberr, !.writes = writes, !.args = args,
                    !.reads = IF crash THEN {} ELSE Lists(fn)]
    /\ pc' = [pc EXCEPT ![s] = IF rerun THEN "rerun" ELSE "idle"]
    /\ loc' = [loc EXCEPT ![s] = NoLoc]
    /\ view' = [view EXCEPT ![s] =
                    IF crash THEN <<>>
                    ELSE IF rerun THEN view[s]
                    ELSE ViewOf(fn, auth[s], opportunity, application, today)]
    /\ UNCHANGED <<auth, page, today, cfgvars>>

Finish(s, fn, handler, msg, crash, dberr, writes, rerun) ==
    FinishWith(s, fn, handler, msg, crash, dberr, writes, rerun, <<>>)

\* A run whose listing query raised before the handler was reached.
QueryCrash(s, fn, handler) ==
    /\ Finish(s, fn, handler, "", TRUE, TRUE, <<>>, FALSE)
    /\ UNCHANGED dbvars

\* A run whose handler caught mysql.connector.Error: st.error(f"MySQL Error: {e}")
CaughtError(s, fn, handler) ==
    /\ Finish(s, fn, handler, "MySQL Error", FALSE, TRUE, <<>>, FALSE)
    /\ UNCHANGED dbvars

\* A run whose handler raised something that is no mysql.connector.Error
\* (ValueError of int()/float(), KeyError of a dropdown map): uncaught.
Uncaught(s, fn, handler) ==
    /\ Finish(s, fn, handler, "", TRUE, FALSE, <<>>, FALSE)
    /\ UNCHANGED dbvars

OnPage(s, fn, area) == Idle(s) /\ scope = area /\ main(auth[s], page[s]) = fn

W(table, stmt) == <<[table |-> table, stmt |-> stmt]>>

(* --------------------------- text coercion ---------------------------- *)
Digits == <<"0", "1", "2", "3", "4", "5", "6", "7", "8", "9">>

DigitValue(c) == (CHOOSE i \in DOMAIN Digits : Digits[i] = c) - 1

\* str.isdigit(): non-empty and every character a digit
isdigit(str) == Len(str) > 0 /\ \A i \in DOMAIN str : str[i] \in Range(Digits)

\* int(str) of a string of digits
RECURSIVE int(_)
int(str) == IF str = <<>> THEN 0 ELSE 10 * int(SubSeq(str, 1, Len(str) - 1)) + DigitValue(str[Len(str)])

\* int(str) raises ValueError
int_raises(str) == ~isdigit(str)

\* str(n) of a non-negative integer
RECURSIVE str(_)
str(n) == IF n < 10 THEN <<Digits[n + 1]>> ELSE str(n \div 10) \o <<Digits[(n % 10) + 1]>>

\* float(text), in hundredths; NULL where float() raises ValueError
float(text) == CASE text = "8.50" -> Some(850) [] OTHER -> NULL

(* ------------------------------ Students ------------------------------ *)
EmailInputs == {"", "riya@example.com"}
PhoneInputs == {"", "91234"}
CgpaInputs == {"", "8.50", "abc"}
BatchInputs == {<<>>, <<"2", "0", "2", "7">>, <<"2", "7">>, <<"2", "0", "a", "7">>,
                <<"2", "0", "2", "7", "7">>, <<"0", "0", "2", "7">>}

\* the text boxes of the add_student form, and the form with all of them filled in
TextFields == {"roll", "first", "last", "dept", "email", "phone"}

Filled ==
    [roll |-> "R2", first |-> "Riya", last |-> "Rao", dept |-> "ECE",
     email |-> "riya@example.com", phone |-> "91234",
     batch |-> <<"2", "0", "2", "7">>, cgpa |-> "8.50"]

FormWith(B, b, c) ==
    [k \in DOMAIN Filled |->
        IF k = "batch" THEN b ELSE IF k = "cgpa" THEN c
        ELSE IF k \in B THEN "" ELSE Filled[k]]

\* what is typed into the add_student form: every batch and CGPA input with the
\* text boxes filled in, and one text box or all of them left empty with a
\* four-digit and a two-digit batch
AddForms ==
    {FormWith({}, b, c) : b \in BatchInputs, c \in CgpaInputs} \cup
    {FormWith(B, b, "8.50") : B \in {{k} : k \in TextFields} \cup {TextFields},
                              b \in {<<"2", "0", "2", "7">>, <<"2", "7">>}}

\* the edit_student form: the row's values, with batch and CGPA retyped
EditForms(row) ==
    {[roll |-> row.roll_no, first |-> row.first_name, last |-> row.last_name,
      dept |-> row.department, email |-> row.email, phone |-> row.phone,
      batch |-> b, cgpa |-> c] :
        b \in BatchInputs \cup {str(row.batch)}, c \in {"8.50", "abc"}}

StudentRow(id, f) ==
    [student_id |-> id, roll_no |-> f.roll, first_name |-> f.first, last_name |-> f.last,
     email |-> f.email, phone |-> f.phone, department |-> f.dept,
     batch |-> int(f.batch), cgpa |-> Val(float(f.cgpa))]

add_student_nobatch(f) ==
    IF ~(f.roll # "" /\ f.first # "" /\ f.last # "" /\ f.dept # "" /\ f.email # ""
         /\ f.batch # <<>> /\ f.cgpa # "")
    THEN "Please fill all required fields."
    ELSE "execute"

\* add_student, the validation of the submitted form: the error it reports, or
\* "execute" when it goes on to the INSERT
add_student_validate(f) ==
    IF ~(f.roll # "" /\ f.first # "" /\ f.last # "" /\ f.dept # "" /\ f.email # ""
         /\ f.batch # <<>> /\ f.cgpa # "")
    THEN "Please fill all required fields."
    ELSE IF ~(isdigit(f.batch) /\ Len(f.batch) = 4)
    THEN "Batch must be a 4-digit year."
    ELSE "execute"

\* page_students, form add_student.  The form handler runs first; the listing
\* query of the page follows in the same run.
AddStudent(s, f) ==
    /\ OnPage(s, "page_students", "students")
    /\ LET v == add_student_validate(f) IN
       \E werr \in BOOLEAN, qerr \in BOOLEAN :
        IF v # "execute" THEN
            /\ Finish(s, "page_students", "add_student", v, qerr, qerr, <<>>, FALSE)
            /\ UNCHANGED dbvars
        ELSE IF int_raises(f.batch) \/ IsNull(float(f.cgpa)) THEN
            /\ ~werr /\ ~qerr
            /\ Uncaught(s, "page_students", "add_student")
        ELSE IF werr THEN
            /\ Finish(s, "page_students", "add_student", "MySQL Error", qerr, TRUE, <<>>, FALSE)
            /\ UNCHANGED dbvars
        ELSE
            /\ autoinc.student <= MaxStudentId
            /\ student' = student \cup {StudentRow(autoinc.student, f)}
            /\ autoinc' = [autoinc EXCEPT !.student = @ + 1]
            /\ Finish(s, "page_students", "add_student", "Student created.", qerr, qerr,
                      W("student", "INSERT"), FALSE)
            /\ UNCHANGED <<users, opportunity, application, application_audit,
                           interview, assessment, announcement>>

\* page_students, form edit_student_<id>: no validation before the UPDATE.
EditStudent(s, id, f) ==
    /\ OnPage(s, "page_students", "students")
    /\ \E werr \in BOOLEAN :
        IF int_raises(f.batch) \/ IsNull(float(f.cgpa)) THEN
            /\ ~werr
            /\ Uncaught(s, "page_students", "edit_student")
        ELSE IF werr THEN CaughtError(s, "page_students", "edit_student")
        ELSE
            /\ student' = {IF r.student_id = id THEN StudentRow(id, f) ELSE r : r \in student}
            /\ Finish(s, "page_students", "edit_student", "Updated.", FALSE, FALSE,
                      W("student", "UPDATE"), TRUE)
            /\ UNCHANGED <<users, opportunity, application, application_audit,
                           interview, assessment, announcement, autoinc>>

\* DELETE FROM student: the rows that reference the student go with it
\* (application and its interviews), users.student_id is set to NULL.
DeleteStudentRows(id) ==
    /\ student' = {r \in student : r.student_id # id}
    /\ application' = {a \in application : a.student_id # id}
    /\ interview' = {i \in interview :
                        \A a \in application : a.application_id = i.application_id => a.student_id # id}
    /\ users' = {IF u.student_id = Some(id) THEN [u EXCEPT !.student_id = NULL] ELSE u : u \in users}

\* page_students, button 'Delete Student'
DeleteStudent(s, id) ==
    /\ OnPage(s, "page_students", "students")
    /\ \E werr \in BOOLEAN :
        IF werr THEN CaughtError(s, "page_students", "Delete Student")
        ELSE
            /\ DeleteStudentRows(id)
            /\ Finish(s, "page_students", "Delete Student", "Student deleted.", FALSE, FALSE,
                      W("student", "DELETE"), TRUE)
            /\ UNCHANGED <<opportunity, application_audit, assessment, announcement, autoinc>>

\* page_students, button 'View Applications': one more query, nothing written
ViewApplications(s, id) ==
    /\ OnPage(s, "page_students", "students")
    /\ \E qerr \in BOOLEAN :
        /\ Finish(s, "page_students", "View Applications", "", qerr, qerr, <<>>, FALSE)
        /\ UNCHANGED dbvars

\* The handlers of page_students; those below the listing query are reached
\* only when it did not raise.
StudentsPage(s) ==
    \/ \E f \in AddForms : AddStudent(s, f)
    \/ /\ OnPage(s, "page_students", "students")
       /\ QueryCrash(s, "page_students", "row widget")
    \/ \E row \in student :
        \/ \E f \in EditForms(row) : EditStudent(s, row.student_id, f)
        \/ DeleteStudent(s, row.student_id)
        \/ ViewApplications(s, row.student_id)

(* -------------------------------- Users ------------------------------- *)
\* what can be entered into the add_user form, given the students on offer
UserForms ==
    [username : {"riya", "aarav"}, role : {"ADMIN", "STUDENT"},
     link : {NULL} \cup {Some(r.student_id) : r \in student}, pwd : {"aarav123"}]

\* users.username is UNIQUE: the INSERT of a second row with the name fails
username_taken(username) == \E u \in users : u.username = username

\* page_users_admin, form add_user
CreateUser(s, f) ==
    /\ OnPage(s, "page_users_admin", "users")
    /\ \E werr \in BOOLEAN, qerr \in BOOLEAN :
        IF werr \/ username_taken(f.username) \/ autoinc.users > MaxUserId THEN
            /\ werr
            /\ Finish(s, "page_users_admin", "add_user", "MySQL Error", qerr, TRUE, <<>>, FALSE)
            /\ UNCHANGED dbvars
        ELSE
            /\ users' = users \cup {[user_id |-> autoinc.users, username |-> f.username,
                                     password_hash |-> sha256_hex(f.pwd), role |-> f.role,
                                     student_id |-> f.link]}
            /\ autoinc' = [autoinc EXCEPT !.users = @ + 1]
            /\ Finish(s, "page_users_admin", "add_user", "User created.", qerr, qerr,
                      W("user", "INSERT"), FALSE)
            /\ UNCHANGED <<student, opportunity, application, application_audit,
                           interview, assessment, announcement>>

delete_offered_all(u) == TRUE

\* page_users_admin: the Delete button is drawn for every user but 'admin'
delete_offered(u) == u.username # "admin"

\* page_users_admin, button Delete
DeleteUser(s, id) ==
    /\ OnPage(s, "page_users_admin", "users")
    /\ \E u \in users : u.user_id = id /\ delete_offered(u)
    /\ \E werr \in BOOLEAN :
        IF werr THEN CaughtError(s, "page_users_admin", "Delete User")
        ELSE
            /\ users' = {u \in users : u.user_id # id}
            /\ Finish(s, "page_users_admin", "Delete User", "User deleted.", FALSE, FALSE,
                      W("user", "DELETE"), TRUE)
            /\ UNCHANGED <<student, opportunity, application, application_audit,
                           interview, assessment, announcement, autoinc>>

UsersPage(s) ==
    \/ \E f \in UserForms : CreateUser(s, f)
    \/ /\ OnPage(s, "page_users_admin", "users")
       /\ QueryCrash(s, "page_users_admin", "add_user")
    \/ \E u \in users : DeleteUser(s, u.user_id)

(* --------------------- Announcements, Assessments --------------------- *)
\* page_announcements_admin, form add_ann
PostAnnouncement(s) ==
    /\ OnPage(s, "page_announcements_admin", "minor")
    /\ \E werr \in BOOLEAN, qerr \in BOOLEAN :
        IF werr \/ autoinc.announcement > MaxMinorId THEN
            /\ werr
            /\ Finish(s, "page_announcements_admin", "add_ann", "MySQL Error", qerr, TRUE, <<>>, FALSE)
            /\ UNCHANGED dbvars
        ELSE
            /\ announcement' = announcement \cup {[announcement_id |-> autoinc.announcement]}
            /\ autoinc' = [autoinc EXCEPT !.announcement = @ + 1]
            /\ Finish(s, "page_announcements_admin", "add_ann", "Announcement posted.",
                      qerr, qerr, W("announcement", "INSERT"), FALSE)
            /\ UNCHANGED <<users, student, opportunity, application, application_audit,
                           interview, assessment>>

\* page_announcements_admin, button Delete
DeleteAnnouncement(s, id) ==
    /\ OnPage(s, "page_announcements_admin", "minor")
    /\ \E werr \in BOOLEAN :
        IF werr THEN CaughtError(s, "page_announcements_admin", "Delete Announcement")
        ELSE
            /\ announcement' = {a \in announcement : a.announcement_id # id}
            /\ Finish(s, "page_announcements_admin", "Delete Announcement",
                      "Announcement deleted.", FALSE, FALSE, W("announcement", "DELETE"), TRUE)
            /\ UNCHANGED <<users, student, opportunity, application, application_audit,
                           interview, assessment, autoinc>>

\* page_assessments_admin, form add_assessment: opp_map[opp_sel] raises KeyError
\* when there is no opportunity to select
AddAssessment(s) ==
    /\ OnPage(s, "page_assessments_admin", "minor")
    /\ \E werr \in BOOLEAN :
        IF opportunity = {} THEN
            /\ ~werr
            /\ Uncaught(s, "page_assessments_admin", "add_assessment")
        ELSE IF werr \/ autoinc.assessment > MaxMinorId THEN
            /\ werr
            /\ CaughtError(s, "page_assessments_admin", "add_assessment")
        ELSE \E o \in opportunity :
            /\ assessment' = assessment \cup {[assessment_id |-> autoinc.assessment,
                                               opportunity_id |-> o.opportunity_id]}
            /\ autoinc' = [autoinc EXCEPT !.assessment = @ + 1]
            /\ Finish(s, "page_assessments_admin", "add_assessment", "Assessment added.",
                      FALSE, FALSE, W("assessment", "INSERT"), TRUE)
            /\ UNCHANGED <<users, student, opportunity, application, application_audit,
                           interview, announcement>>

\* page_assessments_admin, button Delete
DeleteAssessment(s, id) ==
    /\ OnPage(s, "page_assessments_admin", "minor")
    /\ \E werr \in BOOLEAN :
        IF werr THEN CaughtError(s, "page_assessments_admin", "Delete Assessment")
        ELSE
            /\ assessment' = {a \in assessment : a.assessment_id # id}
            /\ Finish(s, "page_assessments_admin", "Delete Assessment", "Assessment deleted.",
                      FALSE, FALSE, W("assessment", "DELETE"), TRUE)
            /\ UNCHANGED <<users, student, opportunity, application, application_audit,
                           interview, announcement, autoinc>>

MinorPages(s) ==
    \/ PostAnnouncement(s)
    \/ \E a \in announcement : DeleteAnnouncement(s, a.announcement_id)
    \/ AddAssessment(s)
    \/ \E a \in assessment : DeleteAssessment(s, a.assessment_id)
    \/ \E fn \in {"page_announcements_admin", "page_assessments_admin"} :
        /\ OnPage(s, fn, "minor")
        /\ QueryCrash(s, fn, "form or row widget")

(* ------------------------ Opportunities (Admin) ----------------------- *)
\* the 'Application Deadline (optional)' date input: empty, or a day
DeadlineInputs == {NULL, Some(1)}

\* page_opportunities_admin, form add_opp: deadline if deadline else None
AddOpportunity(s, deadline) ==
    /\ OnPage(s, "page_opportunities_admin", "opps")
    /\ \E werr \in BOOLEAN :
        IF werr \/ autoinc.opportunity > MaxOppId THEN
            /\ werr
            /\ CaughtError(s, "page_opportunities_admin", "add_opp")
        ELSE
            /\ opportunity' = opportunity \cup {[opportunity_id |-> autoinc.opportunity,
                                                 application_deadline |-> deadline]}
            /\ autoinc' = [autoinc EXCEPT !.opportunity = @ + 1]
            /\ Finish(s, "page_opportunities_admin", "add_opp", "Opportunity created.",
                      FALSE, FALSE, W("opportunity", "INSERT"), TRUE)
            /\ UNCHANGED <<users, student, application, application_audit,
                           interview, assessment, announcement>>

\* DELETE FROM opportunity: its applications (with their interviews) and
\* assessments go with it.
DeleteOpportunityRows(id) ==
    /\ opportunity' = {o \in opportunity : o.opportunity_id # id}
    /\ application' = {a \in application : a.opportunity_id # id}
    /\ interview' = {i \in interview :
                        \A a \in application : a.application_id = i.application_id => a.opportunity_id # id}
    /\ assessment' = {a \in assessment : a.opportunity_id # id}

\* page_opportunities_admin, button Delete
DeleteOpportunity(s, id) ==
    /\ OnPage(s, "page_opportunities_admin", "opps")
    /\ \E werr \in BOOLEAN :
        IF werr THEN CaughtError(s, "page_opportunities_admin", "Delete Opportunity")
        ELSE
            /\ DeleteOpportunityRows(id)
            /\ Finish(s, "page_opportunities_admin", "Delete Opportunity", "Opportunity deleted.",
                      FALSE, FALSE, W("opportunity", "DELETE"), TRUE)
            /\ UNCHANGED <<users, student, application_audit, announcement, autoinc>>

OpportunitiesAdminPage(s) ==
    \/ \E d \in DeadlineInputs : AddOpportunity(s, d)
    \/ \E o \in opportunity : DeleteOpportunity(s, o.opportunity_id)
    \/ /\ OnPage(s, "page_opportunities_admin", "opps")
       /\ QueryCrash(s, "page_opportunities_admin", "form or row widget")

(* ----------------------- Opportunities (Student) ---------------------- *)
\* st.button(label, key=f"apply_{id}", disabled=...) in the run a click started:
\* the click is delivered when the button is drawn again as it was pressed; when
\* the row is drawn with another label, whether the click still reaches it is the
\* framework's choice; when the row is gone, no button takes it.
ClickDelivered(pressed, drawn, id) ==
    IF id \notin DOMAIN drawn THEN {FALSE}
    ELSE IF drawn[id].button.label = pressed.button.label THEN {TRUE}
    ELSE BOOLEAN

\* page_opportunities_student: the user presses the button of row id, which
\* the screen shows enabled; the run repeats the page's queries and reaches
\* the button.
ApplyPress(s, id) ==
    /\ OnPage(s, "page_opportunities_student", "opps")
    /\ id \in DOMAIN view[s]
    /\ ~view[s][id].button.disabled
    /\ \E qerr \in BOOLEAN :
        IF qerr THEN QueryCrash(s, "page_opportunities_student", "Apply")
        ELSE LET drawn == ViewOf("page_opportunities_student", auth[s], opportunity,
                                 application, today)
             IN \E fires \in ClickDelivered(view[s][id], drawn, id) :
                /\ view' = [view EXCEPT ![s] = drawn]
                /\ last' = [Ran(s, "page_opportunities_student", "Apply", "") EXCEPT
                                !.reads = Lists("page_opportunities_student")]
                /\ pc' = [pc EXCEPT ![s] = IF fires THEN "apply" ELSE "idle"]
                /\ loc' = [loc EXCEPT ![s] =
                            IF fires THEN [student_id |-> Val(auth[s].student_id),
                                           opportunity_id |-> id,
                                           pressed |-> view[s][id], drawn |-> drawn[id]]
                            ELSE NoLoc]
                /\ UNCHANGED <<dbvars, auth, page, today, cfgvars>>

\* sp_create_application(student_id, opportunity_id, OUT id): raises when the
\* student already has an application for the opportunity or a referenced row
\* is missing, else inserts the application with status APPLIED.
sp_create_application_rejects(student_id, opportunity_id) ==
    \/ \E a \in application : a.student_id = student_id /\ a.opportunity_id = opportunity_id
    \/ student_id \notin Ids(student, "student_id")
    \/ opportunity_id \notin Ids(opportunity, "opportunity_id")
    \/ autoinc.application > MaxAppId

\* page_opportunities_student: call_proc("sp_create_application", (student_id, id, 0))
ApplyCall(s) ==
    /\ s \in active /\ pc[s] = "apply" /\ scope = "opps"
    /\ LET l == loc[s]
           call == [proc |-> "sp_create_application", student_id |-> l.student_id,
                    opportunity_id |-> l.opportunity_id, pressed |-> l.pressed,
                    drawn |-> l.drawn]
       IN \E werr \in BOOLEAN :
        IF werr \/ sp_create_application_rejects(l.student_id, l.opportunity_id) THEN
            /\ werr
            /\ last' = [Ran(s, "page_opportunities_student", "Apply", "MySQL Error") EXCEPT
                            !.dberr = TRUE, !.call = call,
                            !.reads = Lists("page_opportunities_student")]
            /\ pc' = [pc EXCEPT ![s] = "idle"]
            /\ UNCHANGED dbvars
        ELSE
            /\ application' = application \cup
                    {[application_id |-> autoinc.application, student_id |-> l.student_id,
                      opportunity_id |-> l.opportunity_id, status |-> "APPLIED"]}
            /\ autoinc' = [autoinc EXCEPT !.application = @ + 1]
            /\ last' = [Ran(s, "page_opportunities_student", "Apply",
                            "You have successfully applied") EXCEPT
                            !.call = call, !.writes = W("application", "CALL"),
                            !.reads = Lists("page_opportunities_student")]
            /\ pc' = [pc EXCEPT ![s] = "rerun"]
            /\ UNCHANGED <<users, student, opportunity, application_audit,
                           interview, assessment, announcement>>
    /\ loc' = [loc EXCEPT ![s] = NoLoc]
    /\ UNCHANGED <<auth, page, view, today, cfgvars>>

OpportunitiesStudentPage(s) ==
    \/ \E id \in 1..MaxOppId : ApplyPress(s, id)
    \/ ApplyCall(s)

(* ------------------------- Student: My Profile ------------------------ *)
\* page_student_profile, form update_profile (drawn only when the student row
\* is found)
SaveContactInfo(s, email, phone) ==
    /\ OnPage(s, "page_student_profile", "students")
    /\ LET sid == Val(auth[s].student_id) IN
       \E qerr \in BOOLEAN, werr \in BOOLEAN :
        IF qerr THEN
            /\ ~werr
            /\ QueryCrash(s, "page_student_profile", "update_profile")
        ELSE IF sid \notin Ids(student, "student_id") THEN
            /\ ~werr
            /\ Finish(s, "page_student_profile", "update_profile", "Student record not found.",
                      FALSE, FALSE, <<>>, FALSE)
            /\ UNCHANGED dbvars
        ELSE IF werr THEN CaughtError(s, "page_student_profile", "update_profile")
        ELSE
            /\ student' = {IF r.student_id = sid THEN [r EXCEPT !.email = email, !.phone = phone]
                           ELSE r : r \in student}
            /\ Finish(s, "page_student_profile", "update_profile", "Contact info updated.",
                      FALSE, FALSE, W("student", "UPDATE"), TRUE)
            /\ UNCHANGED <<users, opportunity, application, application_audit,
                           interview, assessment, announcement, autoinc>>

StudentProfilePage(s) ==
    \E email \in EmailInputs, phone \in PhoneInputs : SaveContactInfo(s, email, phone)

(* ------------------------ Applications (Admin) ------------------------ *)
AppRow(id) == CHOOSE a \in application : a.application_id = id

status_change_details_new(old, new) == new \o " -> " \o new

\* f"{r['status']} -> {new_status}"
status_change_details(old, new) == old \o " -> " \o new

\* page_applications_admin, button 'Update Status' or 'Withdraw' of row id: the
\* run lists the applications and reaches the button of the row; the handler
\* then executes two statements, each on its own connection.
StatusPress(s, id, handler, new_status) ==
    /\ OnPage(s, "page_applications_admin", "apps")
    /\ Cardinality(application_audit) < MaxAudit
    /\ \E qerr \in BOOLEAN :
        IF qerr THEN QueryCrash(s, "page_applications_admin", handler)
        ELSE LET r == AppRow(id) IN
            /\ loc' = [loc EXCEPT ![s] =
                        [handler |-> handler, application_id |-> id, status |-> r.status,
                         new_status |-> new_status]]
            /\ pc' = [pc EXCEPT ![s] = "status_write"]
            /\ last' = [Ran(s, "page_applications_admin", handler, "") EXCEPT
                            !.reads = Lists("page_applications_admin")]
            /\ UNCHANGED <<dbvars, auth, page, view, today, cfgvars>>

\* the audit row each handler inserts after its UPDATE
audit_row(l) ==
    IF l.handler = "Update Status"
    THEN [application_id |-> l.application_id, action |-> "STATUS_CHANGE",
          details |-> status_change_details(l.status, l.new_status)]
    ELSE [application_id |-> l.application_id, action |-> "WITHDRAW", details |-> "User action"]

status_written_keep(l) == IF l.handler = "Update Status" THEN l.new_status ELSE l.status

\* the status each handler's UPDATE writes
status_written(l) == IF l.handler = "Update Status" THEN l.new_status ELSE "WITHDRAWN"

success_message(l) ==
    IF l.handler = "Update Status" THEN "Status updated." ELSE "Application withdrawn."

\* execute("UPDATE application SET status=%s WHERE application_id=%s", ...)
StatusWrite(s) ==
    /\ s \in active /\ pc[s] = "status_write"
    /\ LET l == loc[s] IN
       \E werr \in BOOLEAN :
        IF werr THEN CaughtError(s, "page_applications_admin", l.handler)
        ELSE
            /\ application' = {IF a.application_id = l.application_id
                               THEN [a EXCEPT !.status = status_written(l)] ELSE a :
                               a \in application}
            /\ pc' = [pc EXCEPT ![s] = "audit_write"]
            /\ last' = [Ran(s, "page_applications_admin", l.handler, "") EXCEPT
                            !.writes = W("application", "UPDATE"), !.args = l,
                            !.reads = Lists("page_applications_admin")]
            /\ UNCHANGED <<users, student, opportunity, application_audit, interview,
                           assessment, announcement, autoinc, auth, page, view, loc,
                           today, cfgvars>>

audit_first(done) == W("application_audit", "INSERT") \o done

\* the statements of the run once the audit INSERT has committed too
audit_appended(done) == done \o W("application_audit", "INSERT")

\* execute("INSERT INTO application_audit(application_id, action, details) ...")
AuditWrite(s) ==
    /\ s \in active /\ pc[s] = "audit_write"
    /\ LET l == loc[s]
           done == W("application", "UPDATE")
       IN \E werr \in BOOLEAN :
        IF werr THEN
            /\ FinishWith(s, "page_applications_admin", l.handler, "MySQL Error", FALSE, TRUE,
                          done, FALSE, l)
            /\ UNCHANGED dbvars
        ELSE
            /\ application_audit' = application_audit \cup {audit_row(l)}
            /\ FinishWith(s, "page_applications_admin", l.handler, success_message(l), FALSE,
                          FALSE, audit_appended(done), TRUE, l)
            /\ UNCHANGED <<users, student, opportunity, application, interview,
                           assessment, announcement, autoinc>>

\* DELETE FROM application: its interviews go with it
DeleteApplication(s, id) ==
    /\ OnPage(s, "page_applications_admin", "apps")
    /\ \E werr \in BOOLEAN :
        IF werr THEN CaughtError(s, "page_applications_admin", "Delete Application")
        ELSE
            /\ application' = {a \in application : a.application_id # id}
            /\ interview' = {i \in interview : i.application_id # id}
            /\ Finish(s, "page_applications_admin", "Delete Application",
                      "Application deleted (triggers fired).", FALSE, FALSE,
                      W("application", "DELETE"), TRUE)
            /\ UNCHANGED <<users, student, opportunity, application_audit,
                           assessment, announcement, autoinc>>

\* the 'Change Status' selections followed (besides leaving the row's own status)
StatusInputs == {"SHORTLISTED"}

ApplicationsPage(s) ==
    \/ \E a \in application :
        \/ \E new_status \in StatusInputs \cup {a.status} :
                StatusPress(s, a.application_id, "Update Status", new_status)
        \/ StatusPress(s, a.application_id, "Withdraw", a.status)
        \/ DeleteApplication(s, a.application_id)
    \/ StatusWrite(s)
    \/ AuditWrite(s)

(* ------------------------- Interviews (Admin) ------------------------- *)
RESULTS == <<"PENDING", "PASS", "FAIL", "RESCHEDULED">>

\* page_interviews_admin, form schedule_interview: app_map[sel] raises KeyError
\* when there is no application to select.  sp_schedule_interview inserts the
\* interview and sets the application's status to INTERVIEW_SCHEDULED.
ScheduleInterview(s) ==
    /\ OnPage(s, "page_interviews_admin", "apps")
    /\ \E werr \in BOOLEAN :
        IF application = {} THEN
            /\ ~werr
            /\ Uncaught(s, "page_interviews_admin", "schedule_interview")
        ELSE IF werr \/ autoinc.interview > MaxMinorId THEN
            /\ werr
            /\ CaughtError(s, "page_interviews_admin", "schedule_interview")
        ELSE \E a \in application :
            /\ interview' = interview \cup {[interview_id |-> autoinc.interview,
                                             application_id |-> a.application_id,
                                             result |-> "PENDING"]}
            /\ application' = {IF x = a THEN [x EXCEPT !.status = "INTERVIEW_SCHEDULED"] ELSE x :
                               x \in application}
            /\ autoinc' = [autoinc EXCEPT !.interview = @ + 1]
            /\ Finish(s, "page_interviews_admin", "schedule_interview",
                      "Interview scheduled and application status updated.", FALSE, FALSE,
                      W("interview", "CALL"), TRUE)
            /\ UNCHANGED <<users, student, opportunity, application_audit,
                           assessment, announcement>>

\* page_interviews_admin, button 'Save Result'
SaveResult(s, id, newres) ==
    /\ OnPage(s, "page_interviews_admin", "apps")
    /\ \E werr \in BOOLEAN :
        IF werr THEN CaughtError(s, "page_interviews_admin", "Save Result")
        ELSE
            /\ interview' = {IF i.interview_id = id THEN [i EXCEPT !.result = newres] ELSE i :
                             i \in interview}
            /\ Finish(s, "page_interviews_admin", "Save Result", "Result updated.",
                      FALSE, FALSE, W("interview", "UPDATE"), TRUE)
            /\ UNCHANGED <<users, student, opportunity, application, application_audit,
                           assessment, announcement, autoinc>>

\* the 'Update Result' selections followed
ResultInputs == {"PASS"}

InterviewsPage(s) ==
    \/ ScheduleInterview(s)
    \/ \E i \in interview, newres \in ResultInputs : SaveResult(s, i.interview_id, newres)
    \/ \E fn \in {"page_interviews_admin", "page_applications_admin"} :
        /\ OnPage(s, fn, "apps")
        /\ QueryCrash(s, fn, "form or row widget")

(* ----------------------- the database helpers ----------------------- *)
HELPERS == {"query", "execute", "call_proc"}

NoCall == [fn |-> "none"]

\* the helpers touch neither the sessions nor (in this view of them) the tables
LayerFrame == UNCHANGED <<dbvars, today, sessvars, last, active, scope>>

\* a helper is called: conn = None, then the try block is entered
CallHelper(fn) ==
    /\ scope = "dblayer"
    /\ dbcall = NoCall
    /\ tally.returned + tally.raised < MaxCalls
    /\ dbcall' = [fn |-> fn, at |-> "get_conn", conn |-> "None", raising |-> FALSE,
                  opened |-> 0, closed |-> 0]
    /\ UNCHANGED <<open_conns, tally>>
    /\ LayerFrame

\* conn = get_conn(): mysql.connector.connect(...) returns a connection or raises
GetConn(ok) ==
    /\ dbcall # NoCall /\ dbcall.at = "get_conn"
    /\ IF ok THEN
            /\ dbcall' = [dbcall EXCEPT !.conn = "open", !.opened = @ + 1, !.at = "cursor"]
            /\ open_conns' = open_conns + 1
       ELSE
            /\ dbcall' = [dbcall EXCEPT !.raising = TRUE, !.at = "finally"]
            /\ UNCHANGED open_conns
    /\ UNCHANGED tally
    /\ LayerFrame

\* the statements of the try block after get_conn(), in order
Body(fn) ==
    CASE fn = "query" -> <<"cursor", "execute", "fetchall">>
      [] fn = "execute" -> <<"cursor", "execute", "commit">>
      [] fn = "call_proc" -> <<"cursor", "callproc", "stored_results", "commit">>

\* the position after statement i of the body: the next statement, or the
\* finally block after the last one
After(fn, i) == IF i < Len(Body(fn)) THEN i + 1 ELSE 0

\* one statement of the try block runs: it completes, or raises into finally
Statement(ok) ==
    /\ dbcall # NoCall /\ dbcall.at \in {"cursor", "body"}
    /\ LET i == IF dbcall.at = "cursor" THEN 1 ELSE dbcall.i
           next == After(dbcall.fn, i)
       IN IF ~ok THEN dbcall' = [fn |-> dbcall.fn, at |-> "finally", conn |-> dbcall.conn,
                                 raising |-> TRUE, opened |-> dbcall.opened,
                                 closed |-> dbcall.closed]
          ELSE IF next = 0 THEN dbcall' = [fn |-> dbcall.fn, at |-> "finally", conn |-> dbcall.conn,
                                           raising |-> FALSE, opened |-> dbcall.opened,
                                           closed |-> dbcall.closed]
          ELSE dbcall' = [fn |-> dbcall.fn, at |-> "body", i |-> next, conn |-> dbcall.conn,
                          raising |-> FALSE, opened |-> dbcall.opened, closed |-> dbcall.closed]
    /\ UNCHANGED <<open_conns, tally>>
    /\ LayerFrame

finally_closes_on_success(conn, raising) == conn # "None" /\ ~raising

\* finally: if conn: conn.close()
finally_closes(conn, raising) == conn # "None"

Finally ==
    /\ dbcall # NoCall /\ dbcall.at = "finally"
    /\ IF finally_closes(dbcall.conn, dbcall.raising) THEN
            /\ dbcall' = [dbcall EXCEPT !.conn = "closed", !.closed = @ + 1, !.at = "leave"]
            /\ open_conns' = open_conns - 1
       ELSE
            /\ dbcall' = [dbcall EXCEPT !.at = "leave"]
            /\ UNCHANGED open_conns
    /\ UNCHANGED tally
    /\ LayerFrame

\* the call returns its value, or the exception propagates to the caller
Leave ==
    /\ dbcall # NoCall /\ dbcall.at = "leave"
    /\ tally' = IF dbcall.raising THEN [tally EXCEPT !.raised = @ + 1]
                ELSE [tally EXCEPT !.returned = @ + 1]
    /\ dbcall' = NoCall
    /\ UNCHANGED open_conns
    /\ LayerFrame

HelperStep ==
    \/ \E fn \in HELPERS : CallHelper(fn)
    \/ \E ok \in BOOLEAN : GetConn(ok)
    \/ \E ok \in BOOLEAN : Statement(ok)
    \/ Finally
    \/ Leave

(* ------------------------------ the system ---------------------------- *)
Scopes == {"students", "users", "minor", "opps", "apps"}

SeedUsers ==
    {[user_id |-> 1, username |-> "admin", password_hash |-> sha256_hex("admin123"),
      role |-> "ADMIN", student_id |-> NULL],
     [user_id |-> 2, username |-> "aarav", password_hash |-> sha256_hex("aarav123"),
      role |-> "STUDENT", student_id |-> Some(1)],
     [user_id |-> 3, username |-> "officer", password_hash |-> sha256_hex(""),
      role |-> "OFFICER", student_id |-> NULL]}

SeedStudent ==
    [student_id |-> 1, roll_no |-> "R1", first_name |-> "Aarav", last_name |-> "Shah",
     email |-> "aarav@example.com", phone |-> "98765", department |-> "CSE",
     batch |-> 2027, cgpa |-> 850]

SeedApplication ==
    [application_id |-> 1, student_id |-> 1, opportunity_id |-> 1, status |-> "APPLIED"]

\* The database as portal.sql seeds it and a browser that has not logged in.
InitDb(sc) ==
    /\ users = SeedUsers
    /\ student = {SeedStudent}
    /\ opportunity = {[opportunity_id |-> 1, application_deadline |-> Some(1)]}
    /\ application = IF sc = "apps" THEN {SeedApplication} ELSE {}
    /\ application_audit = {}
    /\ interview = {}
    /\ assessment = {}
    /\ announcement = {}
    /\ autoinc = [users |-> 4, student |-> 2, opportunity |-> 2,
                  application |-> IF sc = "apps" THEN 2 ELSE 1,
                  interview |-> 1, assessment |-> 1, announcement |-> 1]
    /\ today = 0

InitSessions ==
    /\ auth = [s \in Sessions |-> None]
    /\ page = [s \in Sessions |-> NoPage]
    /\ view = [s \in Sessions |-> <<>>]
    /\ pc = [s \in Sessions |-> "idle"]
    /\ loc = [s \in Sessions |-> NoLoc]
    /\ last = Ran(0, "none", "none", "")

InitLayer ==
    /\ dbcall = NoCall
    /\ open_conns = 0
    /\ tally = [returned |-> 0, raised |-> 0]

InitScope(S) ==
    /\ scope \in S
    /\ active = {1}
    /\ InitDb(scope)
    /\ InitSessions
    /\ InitLayer

Init == InitScope(Scopes)

Core(s) ==
    \/ \E username \in Usernames, password \in Passwords : Login(s, username, password)
    \/ Logout(s)
    \/ Rerun(s)
    \/ \E sel \in DOMAIN PAGES_ADMIN \cup DOMAIN PAGES_STUDENT : Navigate(s, sel)

\* every script run (or database operation of a run) session s can make
SessionStep(s) ==
    \/ Core(s)
    \/ StudentsPage(s)
    \/ StudentProfilePage(s)
    \/ UsersPage(s)
    \/ MinorPages(s)
    \/ OpportunitiesAdminPage(s)
    \/ OpportunitiesStudentPage(s)
    \/ ApplicationsPage(s)
    \/ InterviewsPage(s)

Next ==
    \/ \E s \in Sessions : SessionStep(s)
    \/ Tick

Spec == Init /\ [][Next]_vars

\* The Users page and the login form alone.
NextUsers == \E s \in Sessions : Core(s) \/ UsersPage(s)
SpecUsers == InitScope({"users"}) /\ [][NextUsers]_vars

\* The Students page and the student's profile alone.
NextStudents == \E s \in Sessions : Core(s) \/ StudentsPage(s) \/ StudentProfilePage(s)
SpecStudents == InitScope({"students"}) /\ [][NextStudents]_vars

\* The two Opportunities pages alone, with the calendar advancing.
NextOpps ==
    \/ \E s \in Sessions : Core(s) \/ OpportunitiesAdminPage(s) \/ OpportunitiesStudentPage(s)
    \/ Tick
SpecOpps == InitScope({"opps"}) /\ [][NextOpps]_vars

\* The Applications and Interviews pages alone.
NextApps == \E s \in Sessions : Core(s) \/ ApplicationsPage(s) \/ InterviewsPage(s)
SpecApps == InitScope({"apps"}) /\ [][NextApps]_vars

\* The database helpers alone: calls of query, execute and call_proc, one
\* statement at a time.
SpecLayer == InitScope({"dblayer"}) /\ [][HelperStep]_vars

(* ============================== claims ================================ *)
UserRecord(u) ==
    [user_id |-> u.user_id, username |-> u.username, role |-> u.role,
     student_id |-> u.student_id]

\* C1: a login succeeds, and session auth becomes the user record (user_id,
\* username, role, student_id) of the row, exactly when a users row with the
\* submitted username exists whose stored password_hash equals the SHA-256 hex
\* digest of the submitted password; when no such row exists (unknown username
\* or hash mismatch) authenticate returns None, auth stays unset and
\* 'Invalid credentials.' is shown.
C1_LoginIffHashMatches ==
    [][\A s \in Sessions, username \in Usernames, password \in Passwords :
        (Login(s, username, password) /\ ~last'.dberr) =>
            LET matching == {u \in users : /\ u.username = username
                                           /\ u.password_hash = sha256_hex(password)}
            IN /\ (authenticate(username, password) # None) <=> (matching # {})
               /\ matching # {} =>
                    /\ auth'[s] \in {UserRecord(u) : u \in matching}
                    /\ authenticate(username, password) = auth'[s]
               /\ matching = {} =>
                    /\ auth'[s] = None /\ auth[s] = None
                    /\ last'.msg = "Invalid credentials."]_vars

\* C1 witness: the student user has logged in with the right password.
C1_Witness ==
    /\ last.handler = "login_form" /\ last.msg = "Welcome"
    /\ auth[1] # None /\ auth[1].username = "aarav" /\ auth[1].student_id = Some(1)

\* C2: every session starts with auth = None; a page function runs only in a
\* run that started with the session's auth non-null; and auth turns non-null
\* only in a run of the login form in which authenticate returned that user.
C2_AuthGate ==
    /\ \A s \in Sessions : auth[s] = None
    /\ [][/\ last'.fn \in PageFns => auth[last'.s] # None
          /\ \A s \in Sessions :
                (auth[s] = None /\ auth'[s] # None) =>
                    /\ last'.s = s /\ last'.handler = "login_form"
                    /\ \E username \in Usernames, password \in Passwords :
                            authenticate(username, password) = auth'[s]]_vars

\* C2 witness: an authenticated session has run a page function.
C2_Witness ==
    /\ last.fn \in PageFns /\ last.s = 1 /\ auth[1] # None /\ last.handler = "rerun"

\* C3: the page function a run executes is an entry of the table of the
\* session's role: PAGES_ADMIN for ADMIN, PAGES_STUDENT for STUDENT, none for any
\* other role; a STUDENT session never runs one of the seven admin pages.
C3_RoleGate ==
    [][last'.fn \in PageFns =>
        LET role == auth[last'.s].role IN
        /\ role \in {"ADMIN", "STUDENT"}
        /\ role = "ADMIN" => \E k \in DOMAIN PAGES_ADMIN : PAGES_ADMIN[k] = last'.fn
        /\ role = "STUDENT" =>
            /\ \E k \in DOMAIN PAGES_STUDENT : PAGES_STUDENT[k] = last'.fn
            /\ last'.fn \notin {"page_students", "page_opportunities_admin",
                                "page_announcements_admin", "page_assessments_admin",
                                "page_interviews_admin", "page_applications_admin",
                                "page_users_admin"}]_vars

\* C3 witness: a STUDENT session has run the student Opportunities page.
C3_Witness ==
    /\ last.fn = "page_opportunities_student" /\ last.s = 1
    /\ auth[1] # None /\ auth[1].role = "STUDENT"

Entities == {"student", "opportunity", "application", "interview", "assessment",
             "announcement", "user"}
Kinds == {"create", "read", "update", "delete"}

\* the sidebar entry of the admin page of each entity, and the group it is in
PageNameOf(e) ==
    CASE e = "student" -> "Students" [] e = "opportunity" -> "Opportunities"
      [] e = "application" -> "Applications" [] e = "interview" -> "Interviews"
      [] e = "assessment" -> "Assessments" [] e = "announcement" -> "Announcements"
      [] e = "user" -> "Users"

ScopeOf(e) ==
    CASE e = "student" -> "students" [] e = "opportunity" -> "opps"
      [] e \in {"application", "interview"} -> "apps"
      [] e \in {"assessment", "announcement"} -> "minor" [] e = "user" -> "users"

TableOf(e) ==
    CASE e = "student" -> student [] e = "opportunity" -> opportunity
      [] e = "application" -> application [] e = "interview" -> interview
      [] e = "assessment" -> assessment [] e = "announcement" -> announcement
      [] e = "user" -> users

\* what a committed statement does to its table
KindOf(stmt) ==
    CASE stmt \in {"INSERT", "CALL"} -> "create" [] stmt = "UPDATE" -> "update"
      [] stmt = "DELETE" -> "delete"

\* the step is a run of session s that listed entity e (read) or committed a
\* statement of kind k on its table
Did(s, e, k) ==
    /\ last'.s = s /\ ~last'.crash
    /\ IF k = "read" THEN e \in last'.reads
       ELSE \E i \in DOMAIN last'.writes :
                last'.writes[i].table = e /\ KindOf(last'.writes[i].stmt) = k

\* Session s has an enabled step that does k to e.  'Update Status' lists the
\* rows in one step and commits its UPDATE in the next.
Offers(s, e, k) ==
    \/ ENABLED (SessionStep(s) /\ Did(s, e, k))
    \/ /\ e = "application" /\ k = "update"
       /\ ENABLED (SessionStep(s) /\ pc'[s] = "status_write")

\* an idle ADMIN session with the admin page of entity e selected
AdminOn(s, e) ==
    /\ Idle(s) /\ auth[s] # None /\ auth[s].role = "ADMIN"
    /\ scope = ScopeOf(e) /\ page[s] = PageNameOf(e)

\* the database has what the operation needs: a row to update or delete (a
\* user other than 'admin' to delete), an unused id for a new row (and an
\* unused username for a user), a row to refer to for an interview or an
\* assessment
Possible(e, k) ==
    CASE k = "read" -> TRUE
      [] k = "update" -> TableOf(e) # {} /\ (e = "application" => Cardinality(application_audit) < MaxAudit)
      [] k = "delete" -> IF e = "user" THEN \E u \in users : u.username # "admin"
                         ELSE TableOf(e) # {}
      [] k = "create" ->
            CASE e = "student" -> autoinc.student <= MaxStudentId
              [] e = "opportunity" -> autoinc.opportunity <= MaxOppId
              [] e = "application" -> TRUE
              [] e = "interview" -> autoinc.interview <= MaxMinorId /\ application # {}
              [] e = "assessment" -> autoinc.assessment <= MaxMinorId /\ opportunity # {}
              [] e = "announcement" -> autoinc.announcement <= MaxMinorId
              [] e = "user" -> /\ autoinc.users <= MaxUserId
                               /\ \E f \in UserForms : ~username_taken(f.username)

\* the operations the admin pages implement
AdminMatrix ==
    ({"student"} \X Kinds) \cup
    ({"opportunity", "assessment", "announcement", "user"} \X {"create", "read", "delete"}) \cup
    ({"application"} \X {"read", "update", "delete"}) \cup
    ({"interview"} \X {"create", "read", "update"})

\* C4 as stated: an ADMIN session on the page of any entity has an enabled
\* action that creates, one that lists, one that updates and one that deletes
\* a row of the entity.
C4_FullCrud ==
    \A s \in Sessions, e \in Entities, k \in Kinds :
        (AdminOn(s, e) /\ Possible(e, k)) => Offers(s, e, k)

\* C4 amended: an ADMIN session has create, read, update and delete for student;
\* create, read and delete for opportunity, assessment, announcement and user;
\* read, update and delete for application; create, read and update for
\* interview; and no other operation on these entities.  A session inside
\* 'Update Status' has the UPDATE of application enabled.
C4_AdminCrudMatrix ==
    \A s \in Sessions :
        /\ \A e \in Entities, k \in Kinds :
            AdminOn(s, e) =>
                /\ Offers(s, e, k) => <<e, k>> \in AdminMatrix
                /\ (<<e, k>> \in AdminMatrix /\ Possible(e, k)) => Offers(s, e, k)
        /\ (s \in active /\ pc[s] = "status_write") =>
                ENABLED (SessionStep(s) /\ Did(s, "application", "update"))

\* C4 witness: an ADMIN session has committed the UPDATE of a student row.
C4_Witness ==
    /\ last.s = 1 /\ auth[1] # None /\ auth[1].role = "ADMIN"
    /\ last.handler = "edit_student" /\ last.writes = W("student", "UPDATE")

\* C5: every opportunity row on screen, on the admin and on the student
\* Opportunities page, shows 'No Deadline' when days_left is NULL, 'EXPIRED'
\* when days_left < 0 and 'N days left' when days_left >= 0 (0 included): one
\* badge per row, and both pages draw the same badge for the same days_left.
C5_DeadlineBadges ==
    \A s \in Sessions : \A id \in DOMAIN view[s] :
        LET r == view[s][id]
            d == r.days_left
        IN /\ r.page \in {"page_opportunities_admin", "page_opportunities_student"}
           /\ IsNull(d) => r.badge.text = "No Deadline"
           /\ (~IsNull(d) /\ Val(d) < 0) => r.badge.text = "EXPIRED"
           /\ (~IsNull(d) /\ Val(d) >= 0) => r.badge.text = ToString(Val(d)) \o " days left"
           /\ opp_badge_admin(d) = r.badge /\ opp_badge_student(d) = r.badge

\* C5 witness: a row of the student page whose deadline is today shows
\* '0 days left'.
C5_Witness ==
    \E id \in DOMAIN view[1] :
        /\ view[1][id].page = "page_opportunities_student"
        /\ view[1][id].days_left = Some(0)
        /\ view[1][id].badge.text = "0 days left"

\* C6: a run of 'Update Status' that shows 'Status updated.' leaves the audit
\* row (application_id, 'STATUS_CHANGE', '<old status> -> <new status>'); a run
\* of 'Withdraw' that shows 'Application withdrawn.' leaves the status WITHDRAWN
\* and the audit row (application_id, 'WITHDRAW', 'User action'); the UPDATE of
\* the status is committed before the INSERT of the audit row is attempted, and
\* a run that committed the UPDATE ends with the audit row or with 'MySQL Error'.
C6_StatusAudit ==
    LET l == last.args
        both == <<[table |-> "application", stmt |-> "UPDATE"],
                  [table |-> "application_audit", stmt |-> "INSERT"]>>
        status_is(id, st) == \A a \in application : a.application_id = id => a.status = st
    IN /\ last.msg = "Status updated." =>
            /\ last.handler = "Update Status" /\ last.writes = both
            /\ [application_id |-> l.application_id, action |-> "STATUS_CHANGE",
                details |-> l.status \o " -> " \o l.new_status] \in application_audit
            /\ status_is(l.application_id, l.new_status)
       /\ last.msg = "Application withdrawn." =>
            /\ last.handler = "Withdraw" /\ last.writes = both
            /\ [application_id |-> l.application_id, action |-> "WITHDRAW",
                details |-> "User action"] \in application_audit
            /\ status_is(l.application_id, "WITHDRAWN")
       /\ \A i \in DOMAIN last.writes :
            last.writes[i].table = "application_audit" =>
                i > 1 /\ last.writes[i - 1] = [table |-> "application", stmt |-> "UPDATE"]
       /\ \A s \in Sessions :
            (s \in active /\ pc[s] = "audit_write") =>
                /\ last.writes = <<[table |-> "application", stmt |-> "UPDATE"]>>
                /\ status_is(loc[s].application_id,
                             IF loc[s].handler = "Update Status" THEN loc[s].new_status
                             ELSE "WITHDRAWN")
       /\ (last.handler \in {"Update Status", "Withdraw"} /\ last.writes # <<>>
           /\ pc[last.s] # "audit_write") =>
                last.msg \in {"Status updated.", "Application withdrawn.", "MySQL Error"}

\* C6 witness: an application that was SHORTLISTED has been withdrawn.
C6_Witness ==
    /\ last.msg = "Application withdrawn." /\ last.args.status = "SHORTLISTED"
    /\ \E a \in application : a.application_id = last.args.application_id /\ a.status = "WITHDRAWN"

\* C7: every call of query, execute and call_proc opens at most one connection
\* and, when it opened one, has closed it when it returns or raises; between
\* two calls no connection of this layer is open; when get_conn() itself
\* raises, nothing is closed and the call raises.
C7_ConnectionPerCall ==
    /\ open_conns \in {0, 1}
    /\ dbcall = NoCall => open_conns = 0
    /\ dbcall # NoCall =>
        /\ dbcall.fn \in HELPERS
        /\ dbcall.opened \in {0, 1} /\ dbcall.closed <= dbcall.opened
        /\ open_conns = dbcall.opened - dbcall.closed
        /\ dbcall.at \notin {"get_conn", "finally", "leave"} => dbcall.opened = 1
        /\ dbcall.at = "leave" =>
            IF dbcall.conn = "None"
            THEN dbcall.opened = 0 /\ dbcall.closed = 0 /\ dbcall.raising
            ELSE dbcall.conn = "closed" /\ dbcall.opened = 1 /\ dbcall.closed = 1
                 /\ open_conns = 0

\* C7 witness: a call whose statement raised is about to propagate the error
\* with its connection closed.
C7_Witness ==
    /\ dbcall # NoCall /\ dbcall.at = "leave" /\ dbcall.raising
    /\ dbcall.opened = 1 /\ dbcall.closed = 1 /\ open_conns = 0

\* C8 as stated: whenever a database operation of a run raised an error (the
\* login lookup, a listing query, a statement of a handler), the run caught it
\* and showed 'MySQL Error', and did not end in an uncaught exception.
C8_ErrorsCaught ==
    last.dberr => (last.msg = "MySQL Error" /\ ~last.crash)

\* C9: sp_create_application is called only from a button the screen showed
\* enabled with the label 'Apply', on a row that was not expired (days_left
\* NULL or >= 0) and whose render found no application of this student, with
\* the session's student_id and the row's opportunity_id; on the student page
\* an applied row shows a disabled 'Applied', an expired row that is not
\* applied a disabled 'Expired', any other row an enabled 'Apply'.
C9_ApplyGating ==
    /\ last.call # <<>> =>
        LET c == last.call IN
        /\ c.proc = "sp_create_application"
        /\ c.pressed.page = "page_opportunities_student"
        /\ ~c.pressed.button.disabled /\ c.pressed.button.label = "Apply"
        /\ IsNull(c.pressed.days_left) \/ Val(c.pressed.days_left) >= 0
        /\ ~c.pressed.applied
        /\ auth[last.s] # None /\ auth[last.s].role = "STUDENT"
        /\ Some(c.student_id) = auth[last.s].student_id
        /\ c.opportunity_id = c.pressed.opportunity_id
    /\ \A s \in Sessions : \A id \in DOMAIN view[s] :
        LET r == view[s][id]
            expired == ~IsNull(r.days_left) /\ Val(r.days_left) < 0
        IN r.page = "page_opportunities_student" =>
            /\ r.applied => r.button = [label |-> "Applied", disabled |-> TRUE]
            /\ (expired /\ ~r.applied) => r.button = [label |-> "Expired", disabled |-> TRUE]
            /\ (~expired /\ ~r.applied) => r.button = [label |-> "Apply", disabled |-> FALSE]

\* C9 witness: the procedure has been called for an open opportunity and the
\* application exists.
C9_Witness ==
    /\ last.call # <<>> /\ last.msg = "You have successfully applied"
    /\ \E a \in application :
        a.student_id = last.call.student_id /\ a.opportunity_id = last.call.opportunity_id

\* C10: a submission of the add_student form adds a student row only when roll
\* no, first name, last name, department, email, batch and CGPA are non-empty
\* and batch is exactly 4 digits; with a required field empty it shows 'Please
\* fill all required fields.', with a batch that is not 4 digits 'Batch must be
\* a 4-digit year.', and in both cases commits nothing and leaves the tables
\* unchanged.  Phone may be empty.
C10_AddStudentValidation ==
    [][\A s \in Sessions, f \in AddForms :
        (last'.handler = "add_student" /\ AddStudent(s, f)) =>
            LET required == f.roll # "" /\ f.first # "" /\ f.last # "" /\ f.dept # ""
                            /\ f.email # "" /\ f.batch # <<>> /\ f.cgpa # ""
                four_digits == Len(f.batch) = 4 /\ \A i \in 1..Len(f.batch) : \E d \in 0..9 : f.batch[i] = ToString(d)
            IN /\ (student' # student \/ last'.writes # <<>>) => (required /\ four_digits)
               /\ ~required =>
                    /\ last'.msg = "Please fill all required fields."
                    /\ last'.writes = <<>> /\ UNCHANGED dbvars
               /\ (required /\ ~four_digits) =>
                    /\ last'.msg = "Batch must be a 4-digit year."
                    /\ last'.writes = <<>> /\ UNCHANGED dbvars
               /\ last'.msg = "Student created." =>
                    \E r \in student' \ student :
                        r.phone = f.phone /\ r.batch = int(f.batch)]_vars

\* C10 witness: a student has been created from a form whose phone was empty.
C10_Witness ==
    /\ last.handler = "add_student" /\ last.msg = "Student created."
    /\ \E r \in student : r.phone = "" /\ r.batch = 2027

\* C11 as stated: every student row has a batch of exactly four digits and
\* non-empty roll no, names, department and email (the rows the database starts
\* with have, so a row that has not is one this layer wrote).
C11_BatchFourDigits ==
    \A r \in student :
        /\ r.batch \in 1000..9999
        /\ r.roll_no # "" /\ r.first_name # "" /\ r.last_name # ""
        /\ r.department # "" /\ r.email # ""

(* ----------------------- two browser sessions ------------------------ *)
\* Both sessions open from the start.
InitTwo(S) ==
    /\ scope \in S
    /\ active = Sessions
    /\ InitDb(scope)
    /\ InitSessions
    /\ InitLayer

\* Two sessions of the built-in admin on the Applications and Interviews
\* pages: status updates, withdrawals and interview scheduling interleave at
\* the database operations.
NextTwoAdmins ==
    \E s \in Sessions :
        \/ Login(s, "admin", "admin123")
        \/ Rerun(s)
        \/ \E sel \in {"Applications", "Interviews"} : Navigate(s, sel)
        \/ \E a \in application, new_status \in StatusInputs \cup {"OFFERED"} :
                StatusPress(s, a.application_id, "Update Status", new_status)
        \/ \E a \in application : StatusPress(s, a.application_id, "Withdraw", a.status)
        \/ StatusWrite(s)
        \/ AuditWrite(s)
        \/ ScheduleInterview(s)

SpecTwoAdmins == InitTwo({"apps"}) /\ [][NextTwoAdmins]_vars

\* C12 as stated: when 'Update Status' commits its UPDATE, the old status the
\* handler goes on to log ('<old> -> <new>') is the status the application has
\* in the database just before the UPDATE, and the new status it logs is the
\* status just after it.
C12_AuditRecordsTransition ==
    [][\A s \in Sessions :
        (/\ s \in active /\ pc[s] = "status_write" /\ pc'[s] = "audit_write"
         /\ loc[s].handler = "Update Status") =>
            /\ audit_row(loc[s]).details =
                    AppRow(loc[s].application_id).status \o " -> " \o loc[s].new_status
            /\ \E a \in application' :
                    a.application_id = loc[s].application_id /\ a.status = loc[s].new_status]_vars

\* the tables no STUDENT session writes
OtherTables ==
    <<users, opportunity, application_audit, interview, assessment, announcement>>

\* C13: a step of a session (every step but the change of day; last'.s is the
\* session that took it) whose auth is a STUDENT changes the database in one of two ways only: a committed UPDATE of student that changes
\* nothing but email and phone of the row with the session's student_id, or a
\* call of sp_create_application with the session's student_id that adds one
\* application of that student; the Dashboard and Reports pages write nothing.
C13_StudentWriteScope ==
    [][(/\ today' = today /\ last'.s \in Sessions
        /\ auth[last'.s] # None /\ auth[last'.s].role = "STUDENT") =>
        LET a == auth[last'.s]
            own == Val(a.student_id)
        IN /\ \/ UNCHANGED dbvars /\ last'.writes = <<>>
              \/ /\ last'.handler = "update_profile"
                 /\ last'.writes = <<[table |-> "student", stmt |-> "UPDATE"]>>
                 /\ UNCHANGED <<OtherTables, application, autoinc>>
                 /\ \A r \in student :
                        IF r.student_id = own
                        THEN \E r2 \in student' :
                                [r2 EXCEPT !.email = r.email, !.phone = r.phone] = r
                        ELSE r \in student'
                 /\ Cardinality(student') = Cardinality(student)
              \/ /\ last'.call # <<>>
                 /\ last'.call.proc = "sp_create_application"
                 /\ last'.call.student_id = own
                 /\ UNCHANGED <<OtherTables, student>>
                 /\ application \subseteq application'
                 /\ \A x \in application' \ application : x.student_id = own
                 /\ Cardinality(application') = Cardinality(application) + 1
           /\ last'.call # <<>> => last'.call.student_id = own
           /\ last'.fn \in {"page_student_dashboard", "page_reports"} =>
                    UNCHANGED dbvars /\ last'.writes = <<>> /\ last'.call = <<>>]_vars

\* C13 witness: a STUDENT session has saved its contact info and only email
\* and phone of its own row differ from the seeded row.
C13_Witness ==
    /\ last.handler = "update_profile" /\ last.msg = "Contact info updated."
    /\ auth[1] # None /\ auth[1].role = "STUDENT" /\ auth[1].student_id = Some(1)
    /\ \E r \in student :
        /\ r.student_id = 1 /\ r.email # SeedStudent.email
        /\ [r EXCEPT !.email = SeedStudent.email, !.phone = SeedStudent.phone] = SeedStudent

\* C14: Logout can be pressed in every idle session that is logged in, whatever
\* its role; it sets the session's auth to None and leaves the database as it
\* is; while auth is None every run of the session is the login form (no page
\* function), and auth is set again only by a login that succeeds.
C14_LogoutEndsSession ==
    /\ [](\A s \in Sessions : (Idle(s) /\ auth[s] # None) => ENABLED Logout(s))
    /\ [][/\ \A s \in Sessions :
                Logout(s) => (auth'[s] = None /\ UNCHANGED <<dbvars, today>>)
          /\ \A s \in Sessions :
                (auth[s] = None /\ last'.s = s /\ today' = today) =>
                    /\ last'.fn = "login_ui" /\ last'.writes = <<>>
                    /\ UNCHANGED dbvars
                    /\ auth'[s] # None =>
                            last'.handler = "login_form" /\ last'.msg = "Welcome"]_vars

\* C14 witness: the run that follows a Logout has drawn the login form.
C14_Witness ==
    last.s = 1 /\ last.handler = "rerun" /\ last.fn = "login_ui" /\ auth[1] = None

\* a STUDENT session whose captured student_id is NULL
Unlinked(a) == a # None /\ a.role = "STUDENT" /\ IsNull(a.student_id)

\* C15: a run of a STUDENT session with no linked student_id dispatches to no
\* page function: it shows the 'not linked to a student record' error, and the
\* only step such a session can take when idle is Logout; no call of
\* sp_create_application comes from a session without a student_id.
C15_UnlinkedStudent ==
    /\ [](/\ \A s \in Sessions :
                (Idle(s) /\ Unlinked(auth[s])) =>
                    /\ ENABLED Logout(s)
                    /\ ~ENABLED (SessionStep(s) /\ last'.handler # "Logout")
          /\ last.call # <<>> => ~IsNull(auth[last.s].student_id))
    /\ [][\A s \in Sessions :
            (Unlinked(auth'[s]) /\ last'.s = s /\ last'.handler # "login_form") =>
                /\ last'.fn \in {"not_linked", "main"}
                /\ last'.fn = "not_linked" => last'.msg = Banner("not_linked")
                /\ last'.writes = <<>> /\ last'.call = <<>> /\ last'.reads = {}]_vars

\* C15 witness: a STUDENT user without a student record has logged in and the
\* run after the login shows the error.
C15_Witness ==
    /\ Unlinked(auth[1]) /\ last.s = 1 /\ last.fn = "not_linked"
    /\ last.msg = "This student user is not linked to a student record. Ask Admin to link it."

\* C16: when the handler of 'Update Status' or 'Withdraw' reaches its audit
\* INSERT, the UPDATE of the status is already committed; if the INSERT raises,
\* the run shows 'MySQL Error', the new status stays, no audit row is added and
\* the handler is over (no rollback, no retry); if the UPDATE itself raises,
\* nothing is written and the INSERT is not attempted.
C16_TwoCommits ==
    [][\A s \in Sessions :
        /\ (s \in active /\ pc[s] = "audit_write" /\ last'.s = s /\ today' = today) =>
            LET l == loc[s]
                new == IF l.handler = "Update Status" THEN l.new_status ELSE "WITHDRAWN"
            IN /\ last.writes = <<[table |-> "application", stmt |-> "UPDATE"]>>
               /\ \A a \in application : a.application_id = l.application_id => a.status = new
               /\ IF last'.dberr
                  THEN /\ last'.msg = "MySQL Error" /\ ~last'.crash
                       /\ last'.writes = <<[table |-> "application", stmt |-> "UPDATE"]>>
                       /\ UNCHANGED dbvars
                       /\ pc'[s] = "idle" /\ loc'[s] = NoLoc
                  ELSE /\ application_audit' = application_audit \cup
                                {[application_id |-> l.application_id,
                                  action |-> IF l.handler = "Update Status"
                                             THEN "STATUS_CHANGE" ELSE "WITHDRAW",
                                  details |-> IF l.handler = "Update Status"
                                              THEN l.status \o " -> " \o l.new_status
                                              ELSE "User action"]}
                       /\ application' = application
        /\ (s \in active /\ pc[s] = "status_write" /\ last'.s = s /\ today' = today
            /\ last'.dberr) =>
                /\ last'.msg = "MySQL Error" /\ last'.writes = <<>>
                /\ UNCHANGED dbvars /\ pc'[s] = "idle"]_vars

\* C16 witness: 'Update Status' has shown 'MySQL Error' after committing the
\* UPDATE: the application is SHORTLISTED and there is no audit row.
C16_Witness ==
    /\ last.handler = "Update Status" /\ last.msg = "MySQL Error"
    /\ last.writes = <<[table |-> "application", stmt |-> "UPDATE"]>>
    /\ last.args.status = "APPLIED" /\ last.args.new_status = "SHORTLISTED"
    /\ \E a \in application :
            a.application_id = last.args.application_id /\ a.status = "SHORTLISTED"
    /\ application_audit = {}

\* Two sessions on the login form and the Users page: one can delete the users
\* row the other (or itself) is logged in with.
NextTwoUsers ==
    \E s \in Sessions :
        \/ \E username \in {"admin", "aarav", "riya"}, password \in {"admin123", "aarav123"} :
                Login(s, username, password)
        \/ Logout(s)
        \/ Rerun(s)
        \/ \E sel \in {"Users", "Students", "My Profile"} : Navigate(s, sel)
        \/ UsersPage(s)

SpecTwoUsers == InitTwo({"users"}) /\ [][NextTwoUsers]_vars

\* the users row a session logged in with is gone
RowDeleted(a) == a # None /\ a.user_id \notin Ids(users, "user_id")

\* C17: a logged-in session keeps the auth record captured at login through
\* every run but Logout, whatever happens to the users table, and each of those
\* runs passes the gate and dispatches by the captured role: never the login
\* form, an admin page for ADMIN, a student page for a linked STUDENT.
C17_AuthSnapshot ==
    [][\A s \in Sessions :
        (auth[s] # None /\ last'.s = s /\ today' = today /\ last'.handler # "Logout") =>
            /\ auth'[s] = auth[s]
            /\ last'.fn # "login_ui"
            /\ auth[s].role = "ADMIN" => last'.fn \in Range(PAGES_ADMIN)
            /\ (auth[s].role = "STUDENT" /\ ~IsNull(auth[s].student_id)) =>
                    last'.fn \in Range(PAGES_STUDENT)]_vars

\* C17 witness: an ADMIN session whose users row has been deleted has gone to
\* another page and the page function ran.
C17_Witness ==
    \E s \in Sessions :
        /\ RowDeleted(auth[s]) /\ auth[s].role = "ADMIN"
        /\ last.s = s /\ last.handler = "Navigate" /\ last.fn = "page_students"
        /\ ~last.crash

\* C18: the users row named 'admin' is there in every state; no step removes
\* or renames it; a users row disappears only in a 'Delete User' run, which
\* takes a row with another username, and no step changes the username of a
\* row.
C18_AdminStays ==
    /\ [](\E u \in users : u.username = "admin")
    /\ [][\A u \in users :
            /\ u.username = "admin" =>
                    \E u2 \in users' : u2.user_id = u.user_id /\ u2.username = "admin"
            /\ \A u2 \in users' : u2.user_id = u.user_id => u2.username = u.username
            /\ u.user_id \notin {u2.user_id : u2 \in users'} =>
                    /\ u.username # "admin"
                    /\ last'.handler = "Delete User"
                    /\ last'.writes = <<[table |-> "user", stmt |-> "DELETE"]>>]_vars

\* C18 witness: a user has been deleted on the Users page and the row named
\* 'admin' is still there.
C18_Witness ==
    /\ last.handler = "Delete User" /\ last.msg = "User deleted."
    /\ \E u \in users : u.username = "admin" /\ u.role = "ADMIN"
    /\ \A u \in users : u.username # "aarav"

\* The same student account open in two sessions on the Opportunities page.
NextTwoStudents ==
    \E s \in Sessions :
        \/ Login(s, "aarav", "aarav123")
        \/ Rerun(s)
        \/ Navigate(s, "Opportunities")
        \/ \E id \in 1..MaxOppId : ApplyPress(s, id)
        \/ ApplyCall(s)

SpecTwoStudents == InitTwo({"opps"}) /\ [][NextTwoStudents]_vars

\* C19 as stated: sp_create_application is not called for a student and an
\* opportunity a second time; in particular it is not called when the
\* application of that student for that opportunity is already in the table
\* (applications come from these calls only).
C19_OneRequest ==
    [][\A s \in Sessions :
        (s \in active /\ pc[s] = "apply" /\ last'.s = s /\ last'.call # <<>>) =>
            ~\E a \in application :
                /\ a.student_id = last'.call.student_id
                /\ a.opportunity_id = last'.call.opportunity_id]_vars

====
